---- MODULE Spec2Model ----
(***************************************************************************)
(* A model of go-rcon: the RCON packet codec (NewPacket, Marshal,          *)
(* Unmarshal) and the connection layer (Client.Send, Dial/NewConn,         *)
(* SendCommand, Close, the background reader and readPackets).             *)
(*                                                                         *)
(* The specifications share the definitions:                               *)
(*   Spec        one Conn, built by NewConn and then used by several       *)
(*               goroutines that call SendCommand and Close concurrently;  *)
(*   SpecLive    Spec under the scheduler's fairness;                      *)
(*   SpecClient  several goroutines that each call Client.Send;            *)
(*   SpecStream  the reader framing a stream of packets for readPackets;   *)
(*   SpecCodec   Marshal and Unmarshal applied to packets and byte strings *)
(*               drawn from bounded sets.                                  *)
(* Strings and byte slices are sequences of bytes (0..255).                *)
(***************************************************************************)
EXTENDS Integers, Sequences, FiniteSets, TLC

VARIABLES
    count,      \* the process-wide packet id counter
    maxid,      \* history: the largest id NewPacket has handed out so far
    isClosed,   \* Conn.isClosed, per Conn
    mutex,      \* Conn.mutex, per Conn: 0 when free, else the goroutine holding it
    packets,    \* Conn.packets, per Conn: the channel is "open" or "closed"
    conn,       \* Conn.conn, per Conn: the transport and the bytes in flight
    reader,     \* the goroutine of Conn.start, per Conn
    th,         \* the calling goroutines: position and locals
    ret,        \* what each goroutine's last finished call returned
    wlog,       \* history, per Conn: the kind of every packet written to it
    slog,       \* history, per Conn: what the server answered to each request
    cp          \* the codec specification's packet, bytes and result

vars == << count, maxid, isClosed, mutex, packets, conn, reader, th, ret, wlog, slog, cp >>

----------------------------------------------------------------------------
(* Bounds of the model *)

\* longest payload of the packets the codec specification draws
MaxPayloadLen == 2

\* goroutines that share the Conn of Spec
NThreads == 2

\* goroutines that call Client.Send in SpecClient
NClients == 2

\* most packets the server splits one command response over
MaxFrags == 2

\* most packets on the stream of SpecStream
MaxStream == 2

----------------------------------------------------------------------------
(* Fixed-width integers and little-endian encoding *)
(*                                                                         *)
(* A 32-bit word, uint32 or int32, is held as the int32 with the same      *)
(* bits (0xFFFFFFFF is -1), so that the conversions uint32(x) and int32(x) *)
(* keep the value and only the byte encoding and the arithmetic see the    *)
(* width.                                                                  *)

\* the largest int32
MaxInt32 == 2147483647

MinInt32 == -MaxInt32 - 1

\* unicode.MaxASCII
MaxASCII == 127

\* a + b in 32 bits, for a word a and 0 <= b <= MaxInt32
Add32(a, b) ==
    IF a > MaxInt32 - b THEN (a - MaxInt32 - 1) + (b - MaxInt32 - 1) ELSE a + b

\* uint32(n) of a small non-negative int n
ToUint32(n) == Add32(n, 0)

\* PutUint32 writing the most significant byte first
PutUint32BigEndian(v) ==
    << (v \div 16777216) % 256, (v \div 65536) % 256, (v \div 256) % 256, v % 256 >>

\* binary.LittleEndian.PutUint32
PutUint32(v) ==
    << v % 256, (v \div 256) % 256, (v \div 65536) % 256, (v \div 16777216) % 256 >>

\* binary.LittleEndian.Uint32
Uint32(b) ==
    b[1] + 256 * b[2] + 65536 * b[3]
      + 16777216 * (IF b[4] >= 128 THEN b[4] - 256 ELSE b[4])

\* data[lo:hi] of Go (0-based, hi exclusive)
Slice(data, lo, hi) == SubSeq(data, lo + 1, hi)

----------------------------------------------------------------------------
(* Packet kinds and literals *)

ResponsePacket == 0
CommandPacket == 2
LoginPacket == 3
TerminationPacket == 5

\* "Unknown request 5"
TerminalResponse ==
    << 85, 110, 107, 110, 111, 119, 110, 32, 114, 101, 113, 117, 101, 115, 116, 32, 53 >>

\* "MESSAGE-END"
MessageEnd == << 77, 69, 83, 83, 65, 71, 69, 45, 69, 78, 68 >>

\* &Packet{}
ZeroPacket == [Length |-> 0, ID |-> 0, Kind |-> 0, Payload |-> << >>]

\* a nil *Packet
NilPacket == [nil |-> TRUE]

\* The packet NewPacket builds once the id is known.
MkPacket(id, kind, payload) ==
    [Length |-> ToUint32(Len(payload) + 10), ID |-> id, Kind |-> kind, Payload |-> payload]

----------------------------------------------------------------------------
(* The codec *)

\* a test that looks at the first payload byte only
NonASCIIHead(b) == b # << >> /\ b[1] > MaxASCII

\* the loop over the payload bytes in Marshal and in Unmarshal
NonASCII(b) == \E i \in 1..Len(b) : b[i] > MaxASCII

\* a length test that accepts every packet
LengthAny(p) == TRUE

\* Marshal's test of the Length field
LengthOK(p) == p.Length = ToUint32(Len(p.Payload) + 10)

\* an encoding without the two zero bytes at the end
EncodeUnterminated(p) ==
    PutUint32(p.Length) \o PutUint32(p.ID) \o PutUint32(p.Kind) \o p.Payload

\* an encoding that puts the id before the length
EncodeIdFirst(p) ==
    PutUint32(p.ID) \o PutUint32(p.Length) \o PutUint32(p.Kind) \o p.Payload \o << 0, 0 >>

\* the bytes Marshal writes to its buffer
Encode(p) ==
    PutUint32(p.Length) \o PutUint32(p.ID) \o PutUint32(p.Kind) \o p.Payload \o << 0, 0 >>

\* Marshal(p): [err, data]; err = "" is success, data = << >> is nil.
Marshal(p) ==
    IF p = NilPacket
    THEN [err |-> "nil packet provided", data |-> << >>]
    ELSE IF ~LengthOK(p)
    THEN [err |-> "invalid packet provided", data |-> << >>]
    ELSE IF NonASCII(p.Payload)
    THEN [err |-> "payload contains non-ASCII characters", data |-> << >>]
    ELSE [err |-> "", data |-> Encode(p)]

\* a framing test that accepts any 14 bytes or more
IncompleteShort(data) == Len(data) < 14

\* The framing test of Unmarshal (readPacket's loop has the same condition).
Incomplete(data) ==
    \/ Len(data) < 14
    \/ data[Len(data)] # 0
    \/ data[Len(data) - 1] # 0

\* an Unmarshal that stores Length, ID and Kind before it has tested the payload
UnmarshalEager(data, p) ==
    IF p = NilPacket
    THEN [err |-> "nil packet provided", p |-> p]
    ELSE IF Incomplete(data)
    THEN [err |-> "invalid packet bytes", p |-> p]
    ELSE LET length == Uint32(Slice(data, 0, 4))
             id == Uint32(Slice(data, 4, 8))
             kind == Uint32(Slice(data, 8, 12))
             b == Slice(data, 12, Len(data) - 2)
         IN  IF ToUint32(Len(data)) # Add32(length, 4)
             THEN [err |-> "incorrect packet length", p |-> p]
             ELSE IF NonASCII(b)
             THEN [err |-> "payload contains non-ASCII characters",
                   p |-> [p EXCEPT !.Length = length, !.ID = id, !.Kind = kind]]
             ELSE [err |-> "",
                   p |-> [Length |-> length, ID |-> id, Kind |-> kind, Payload |-> b]]

\* Unmarshal(data, p): [err, p], p the destination after the call. The kind is
\* stored as read, whatever its value.
Unmarshal(data, p) ==
    IF p = NilPacket
    THEN [err |-> "nil packet provided", p |-> p]
    ELSE IF Incomplete(data)
    THEN [err |-> "invalid packet bytes", p |-> p]
    ELSE LET length == Uint32(Slice(data, 0, 4))
             id == Uint32(Slice(data, 4, 8))
             kind == Uint32(Slice(data, 8, 12))
             b == Slice(data, 12, Len(data) - 2)
         IN  IF ToUint32(Len(data)) # Add32(length, 4)
             THEN [err |-> "incorrect packet length", p |-> p]
             ELSE IF NonASCII(b)
             THEN [err |-> "payload contains non-ASCII characters", p |-> p]
             ELSE [err |-> "",
                   p |-> [Length |-> length, ID |-> id, Kind |-> kind, Payload |-> b]]

----------------------------------------------------------------------------
(* The state of goroutines and connections *)

Threads == DOMAIN th
Conns == DOMAIN conn

\* The locals of a goroutine that is in no call: c is the Conn it holds (0: none),
\* todo the calls it may still make on it.
Locals(pc, c, todo, send) ==
    [pc |-> pc, c |-> c, op |-> "", phase |-> "", tmp |-> 0, arg |-> << >>,
     req |-> ZeroPacket, tp |-> ZeroPacket, p |-> ZeroPacket, resp |-> << >>,
     todo |-> todo, send |-> send, cwb |-> FALSE]

\* What a call returned: err = "" is a nil error. sentinel and cwb are history:
\* whether readPackets saw the termination sentinel, and whether another goroutine
\* called Close while this call was waiting for a packet.
Returned(op, c, err, val, sentinel, cwb) ==
    [op |-> op, c |-> c, err |-> err, val |-> val, sentinel |-> sentinel, cwb |-> cwb]

NoReturn == Returned("", 0, "", << >>, FALSE, FALSE)

\* A transport nobody has dialed, and one just dialed.
NoTransport ==
    [open |-> FALSE, closed |-> FALSE, broken |-> FALSE, junk |-> FALSE,
     in |-> << >>, out |-> << >>]
Dialed == [NoTransport EXCEPT !.open = TRUE]

\* net.Conn: Write fails on a closed or broken transport
WriteFails(c) == conn[c].closed \/ conn[c].broken

\* the payloads of resp joined last to first
RECURSIVE ConcatBackwards(_)
ConcatBackwards(resp) ==
    IF resp = << >> THEN << >>
    ELSE ConcatBackwards(Tail(resp)) \o Head(resp).Payload

\* strings.Builder over the payloads of resp
RECURSIVE Concat(_)
Concat(resp) ==
    IF resp = << >> THEN << >> ELSE Head(resp).Payload \o Concat(Tail(resp))

----------------------------------------------------------------------------
(* Conn.Close *)

\* Close that closes the transport and leaves the flag alone
CloseTransportOnly(c, cn) ==
    /\ isClosed' = isClosed
    /\ conn' = [cn EXCEPT ![c].closed = TRUE]

\* Close that flips the flag instead of setting it
CloseToggle(c, cn) ==
    /\ isClosed' = [isClosed EXCEPT ![c] = ~@]
    /\ conn' = [cn EXCEPT ![c].closed = TRUE]

\* c.isClosed = true; c.conn.Close(), applied to the transports cn
Close(c, cn) ==
    /\ isClosed' = [isClosed EXCEPT ![c] = TRUE]
    /\ conn' = [cn EXCEPT ![c].closed = TRUE]

\* Conn.IsClosed
IsClosed(c) == isClosed[c]

----------------------------------------------------------------------------
(* Returning from authenticate/NewConn and from SendCommand *)

\* authenticate: the response group is one packet that echoes the request id
AuthOK(req, resp) == Len(resp) = 1 /\ resp[1].ID = req.ID

\* NewConn after authenticate returned err (readPackets gave resp): on failure the
\* Conn is closed and nil returned; on success the Conn goes to the caller, who in
\* Spec shares it with the other goroutines and in Client.Send keeps it.
NewConnReturn(t, cn, resp, err, sentinel) ==
    LET me == th[t]
        c == me.c
        ok == err = "" /\ AuthOK(me.req, resp)
    IN  /\ mutex' = mutex
        /\ IF ok
           THEN /\ isClosed' = isClosed
                /\ conn' = cn
                /\ ret' = [ret EXCEPT ![t] = Returned("NewConn", c, "", << >>, sentinel, FALSE)]
                /\ th' = IF me.send
                         THEN [th EXCEPT ![t] = Locals("call", c, { }, TRUE)]
                         ELSE [u \in Threads |->
                                 IF u = t THEN Locals("idle", c, me.todo, FALSE)
                                 ELSE [th[u] EXCEPT !.c = c]]
           ELSE /\ Close(c, cn)
                /\ ret' = [ret EXCEPT ![t] =
                             IF me.send
                             THEN Returned("Send", c, "failed to establish connection",
                                           << >>, sentinel, FALSE)
                             ELSE Returned("NewConn", c, "authentication failed",
                                           << >>, sentinel, FALSE)]
                /\ th' = [th EXCEPT ![t] = Locals("done", 0, { }, me.send)]

\* a return that leaves the mutex with its holder
UnlockSkipped(c) == mutex

\* the deferred c.mutex.Unlock()
Unlock(c) == [mutex EXCEPT ![c] = 0]

\* SendCommand after writePacket or readPackets returned: an error closes the Conn,
\* success joins the payloads; the deferred Unlock runs either way.
SendCommandReturn(t, cn, resp, err, sentinel) ==
    LET me == th[t]
        c == me.c
    IN  /\ mutex' = Unlock(c)
        /\ IF err = ""
           THEN /\ isClosed' = isClosed
                /\ conn' = cn
                /\ ret' = [ret EXCEPT ![t] =
                             Returned("SendCommand", c, "", Concat(resp), sentinel, me.cwb)]
           ELSE /\ Close(c, cn)
                /\ ret' = [ret EXCEPT ![t] =
                             Returned("SendCommand", c, err, << >>, sentinel, me.cwb)]
        /\ th' = [th EXCEPT ![t] =
                    Locals(IF me.send THEN "defer" ELSE "idle", c, me.todo, me.send)]

Finish(t, cn, resp, err, sentinel) ==
    IF th[t].op = "NewConn"
    THEN NewConnReturn(t, cn, resp, err, sentinel)
    ELSE SendCommandReturn(t, cn, resp, err, sentinel)

----------------------------------------------------------------------------
(* The calls *)

\* the login credential and the command texts the callers send
Password == << 112 >>
Commands == { << 120 >>, << 200 >> }

\* Dial: url.Parse, the scheme test, net.Dial
DialOutcomes == { "parse error", "unsupported scheme", "dial error", "connected" }

\* &Conn{...}: a Conn no goroutine has yet
FreshConn == CHOOSE c \in Conns : ~conn[c].open /\ \A d \in Conns : ~conn[d].open => c <= d

\* Client.Send, up to Dial's net.Dial: a failed Dial returns the error
ClientSend(t) ==
    /\ th[t].pc = "Send"
    /\ \E outcome \in DialOutcomes :
         IF outcome = "connected"
         THEN /\ conn' = [conn EXCEPT ![FreshConn] = Dialed]
              /\ th' = [th EXCEPT ![t] = Locals("NewConn", FreshConn, { }, TRUE)]
              /\ ret' = ret
         ELSE /\ conn' = conn
              /\ th' = [th EXCEPT ![t] = Locals("done", 0, { }, TRUE)]
              /\ ret' = [ret EXCEPT ![t] =
                           Returned("Send", 0, "failed to establish connection",
                                    << >>, FALSE, FALSE)]
    /\ UNCHANGED << count, maxid, isClosed, mutex, packets, reader, wlog, slog, cp >>

\* NewConn up to authenticate's NewPacket: the Conn is built and start() launches
\* the reader
NewConn(t) ==
    LET c == th[t].c
    IN  /\ th[t].pc = "NewConn"
        /\ isClosed' = [isClosed EXCEPT ![c] = FALSE]
        /\ mutex' = [mutex EXCEPT ![c] = 0]
        /\ packets' = [packets EXCEPT ![c] = "open"]
        /\ reader' = [reader EXCEPT ![c] = [pc |-> "read", p |-> ZeroPacket]]
        /\ th' = [th EXCEPT ![t].pc = "np_load", ![t].op = "NewConn",
                            ![t].phase = "req", ![t].arg = Password]
        /\ UNCHANGED << count, maxid, conn, ret, wlog, slog, cp >>

\* Lock that does not wait
MutexIgnored(c) == TRUE

\* c.mutex.Lock() returns only when no goroutine holds the mutex
MutexFree(c) == mutex[c] = 0

\* SendCommand up to NewPacket: Lock, then the isClosed test, which returns the
\* connection-closed error (the deferred Unlock frees the mutex again)
SendCommand(t) ==
    LET me == th[t]
        c == me.c
    IN  /\ \/ me.pc = "idle" /\ c # 0 /\ "SendCommand" \in me.todo
           \/ me.pc = "call"
        /\ MutexFree(c)
        /\ \E cmd \in Commands :
             IF isClosed[c]
             THEN /\ mutex' = mutex
                  /\ ret' = [ret EXCEPT ![t] =
                               Returned("SendCommand", c, "connection closed",
                                        << >>, FALSE, FALSE)]
                  /\ th' = [th EXCEPT ![t] =
                              Locals(IF me.send THEN "defer" ELSE "idle", c,
                                     me.todo \ { "SendCommand" }, me.send)]
             ELSE /\ mutex' = [mutex EXCEPT ![c] = t]
                  /\ ret' = ret
                  /\ th' = [th EXCEPT ![t].pc = "np_load", ![t].op = "SendCommand",
                                      ![t].phase = "req", ![t].arg = cmd,
                                      ![t].todo = me.todo \ { "SendCommand" }]
        /\ UNCHANGED << count, maxid, isClosed, packets, conn, reader, wlog, slog, cp >>

\* Conn.Close called by a goroutine that holds the Conn. net.Conn.Close on a
\* closed transport returns an error.
CloseCall(t) ==
    LET me == th[t]
        c == me.c
    IN  /\ me.pc = "idle" /\ c # 0 /\ "Close" \in me.todo
        /\ Close(c, conn)
        /\ ret' = [ret EXCEPT ![t] =
                     Returned("Close", c,
                              IF conn[c].closed THEN "use of closed network connection" ELSE "",
                              << >>, FALSE, FALSE)]
        /\ th' = [u \in Threads |->
                    IF u = t THEN [me EXCEPT !.todo = me.todo \ { "Close" }]
                    ELSE IF th[u].c = c /\ th[u].pc = "recv" /\ th[u].op = "SendCommand"
                    THEN [th[u] EXCEPT !.cwb = TRUE]
                    ELSE th[u]]
        /\ UNCHANGED << count, maxid, mutex, packets, reader, wlog, slog, cp >>

\* Send returning without the deferred Close
DeferSkipped(t) ==
    /\ th[t].pc = "defer"
    /\ ret' = [ret EXCEPT ![t].op = "Send"]
    /\ th' = [th EXCEPT ![t] = Locals("done", th[t].c, { }, TRUE)]
    /\ UNCHANGED << count, maxid, isClosed, mutex, packets, conn, reader, wlog, slog, cp >>

\* Client.Send's deferred conn.Close(), after which Send returns what SendCommand
\* returned
DeferClose(t) ==
    LET me == th[t]
    IN  /\ me.pc = "defer"
        /\ Close(me.c, conn)
        /\ ret' = [ret EXCEPT ![t].op = "Send"]
        /\ th' = [th EXCEPT ![t] = Locals("done", me.c, { }, TRUE)]
        /\ UNCHANGED << count, maxid, mutex, packets, reader, wlog, slog, cp >>

----------------------------------------------------------------------------
(* NewPacket: count++ and the read of count for the ID are plain accesses of  *)
(* a package variable, so they are three steps that other goroutines'        *)
(* NewPacket calls can fall between.                                         *)

\* count + 1 in int32
Incr(v) == Add32(v, 1)

\* the kind and payload of the packet a goroutine is creating
NewKind(me) ==
    IF me.phase = "term" THEN TerminationPacket
    ELSE IF me.op = "NewConn" THEN LoginPacket ELSE CommandPacket

NewPayload(me) == IF me.phase = "term" THEN MessageEnd ELSE me.arg

\* count++: the load
NPLoad(t) ==
    /\ th[t].pc = "np_load"
    /\ th' = [th EXCEPT ![t].tmp = count, ![t].pc = "np_store"]
    /\ UNCHANGED << count, maxid, isClosed, mutex, packets, conn, reader, ret, wlog, slog, cp >>

\* count++: the store
NPStore(t) ==
    /\ th[t].pc = "np_store"
    /\ count' = Incr(th[t].tmp)
    /\ th' = [th EXCEPT ![t].pc = "np_id"]
    /\ UNCHANGED << maxid, isClosed, mutex, packets, conn, reader, ret, wlog, slog, cp >>

\* ID: count, which the build may read again from memory or keep from the store
NPId(t) ==
    LET me == th[t]
    IN  /\ me.pc = "np_id"
        /\ \E id \in { count, Incr(me.tmp) } :
             LET pkt == MkPacket(id, NewKind(me), NewPayload(me))
             IN  /\ maxid' = IF id > maxid THEN id ELSE maxid
                 /\ th' = IF me.phase = "term"
                          THEN [th EXCEPT ![t].tp = pkt, ![t].pc = "term", ![t].tmp = 0]
                          ELSE [th EXCEPT ![t].req = pkt, ![t].pc = "write", ![t].tmp = 0]
        /\ UNCHANGED << count, isClosed, mutex, packets, conn, reader, ret, wlog, slog, cp >>

----------------------------------------------------------------------------
(* writePacket and readPackets *)

\* what the write log keeps of a packet
Logged(pkt) == pkt.Kind

\* the transports after c.conn.Write(data)
Written(c, data) == [conn EXCEPT ![c].out = Append(@, data)]

\* a writePacket that drops Marshal's error and writes the packet's bytes
WritePacketUnchecked(t) ==
    LET me == th[t]
        c == me.c
    IN  /\ me.pc = "write"
        /\ IF WriteFails(c)
           THEN /\ Finish(t, conn, << >>, "failed writing packet", FALSE)
                /\ wlog' = wlog
           ELSE /\ conn' = Written(c, Encode(me.req))
                /\ wlog' = [wlog EXCEPT ![c] = Append(@, Logged(me.req))]
                /\ th' = [th EXCEPT ![t].pc = "recv", ![t].resp = << >>]
                /\ UNCHANGED << isClosed, mutex, ret >>
        /\ UNCHANGED << count, maxid, packets, reader, slog, cp >>

\* writePacket(req) in authenticate and SendCommand: a Marshal or Write error is
\* returned (and SendCommand, NewConn close the Conn)
WritePacket(t) ==
    LET me == th[t]
        c == me.c
        m == Marshal(me.req)
    IN  /\ me.pc = "write"
        /\ IF m.err # "" \/ WriteFails(c)
           THEN /\ Finish(t, conn, << >>, "failed writing packet", FALSE)
                /\ wlog' = wlog
           ELSE /\ conn' = Written(c, m.data)
                /\ wlog' = [wlog EXCEPT ![c] = Append(@, Logged(me.req))]
                /\ th' = [th EXCEPT ![t].pc = "recv", ![t].resp = << >>]
                /\ UNCHANGED << isClosed, mutex, ret >>
        /\ UNCHANGED << count, maxid, packets, reader, slog, cp >>

\* a loop body that keeps every packet, the sentinel too
ConsumeAll(t, cn, p) ==
    /\ th' = [th EXCEPT ![t].resp = Append(@, p), ![t].p = ZeroPacket,
                        ![t].tp = ZeroPacket, ![t].pc = "recv"]
    /\ conn' = cn
    /\ UNCHANGED << isClosed, mutex, ret >>

\* readPackets, the rest of the loop body for packet p once the termination
\* packet is out: the sentinel ends the group, any other packet joins it
Consume(t, cn, p) ==
    IF p.Payload = TerminalResponse
    THEN Finish(t, cn, th[t].resp, "", TRUE)
    ELSE /\ th' = [th EXCEPT ![t].resp = Append(@, p), ![t].p = ZeroPacket,
                             ![t].tp = ZeroPacket, ![t].pc = "recv"]
         /\ conn' = cn
         /\ UNCHANGED << isClosed, mutex, ret >>

\* a test that takes every packet for the first of its group
AlwaysFirst(me) == TRUE

\* readPackets: len(packets) == 0, no packet of the group has been kept yet
FirstOfGroup(me) == Len(me.resp) = 0

\* readPackets: a packet arrives over c.packets (the reader's send and this
\* receive are one rendezvous); the first packet of a group makes the caller
\* create the termination packet
Recv(t) ==
    LET me == th[t]
        c == me.c
    IN  /\ me.pc = "recv"
        /\ packets[c] = "open"
        /\ reader[c].pc = "send"
        /\ reader' = [reader EXCEPT ![c] = [pc |-> "read", p |-> ZeroPacket]]
        /\ IF FirstOfGroup(me)
           THEN /\ th' = [th EXCEPT ![t].p = reader[c].p, ![t].phase = "term",
                                    ![t].pc = "np_load"]
                /\ UNCHANGED << isClosed, mutex, conn, ret >>
           ELSE Consume(t, conn, reader[c].p)
        /\ UNCHANGED << count, maxid, packets, wlog, slog, cp >>

\* readPackets: the range loop ends when c.packets is closed, and the packets
\* collected so far are returned with a nil error
RecvClosed(t) ==
    LET me == th[t]
    IN  /\ me.pc = "recv"
        /\ packets[me.c] = "closed"
        /\ Finish(t, conn, me.resp, "", FALSE)
        /\ UNCHANGED << count, maxid, packets, reader, wlog, slog, cp >>

\* readPackets: the termination packet is written (Marshal's error is dropped);
\* a failed Write returns an error
TermWrite(t) ==
    LET me == th[t]
        c == me.c
    IN  /\ me.pc = "term"
        /\ IF WriteFails(c)
           THEN /\ Finish(t, conn, << >>, "failed reading packets", FALSE)
                /\ wlog' = wlog
           ELSE /\ Consume(t, Written(c, Marshal(me.tp).data), me.p)
                /\ wlog' = [wlog EXCEPT ![c] = Append(@, Logged(me.tp))]
        /\ UNCHANGED << count, maxid, packets, reader, slog, cp >>

----------------------------------------------------------------------------
(* The background reader of Conn.start *)

\* readPacket's loop reads single bytes until at least 14 are buffered and the
\* last two are zero: the number of bytes it takes from stream s (0: it blocks
\* for more)
FrameLen(s) ==
    LET ends == { n \in 14..Len(s) : s[n] = 0 /\ s[n - 1] = 0 }
    IN  IF ends = { } THEN 0 ELSE CHOOSE n \in ends : \A m \in ends : n <= m

\* a reader that stops and closes the channel without closing the Conn
ReaderStopNoClose(c, cn) ==
    /\ isClosed' = isClosed
    /\ conn' = cn
    /\ packets' = [packets EXCEPT ![c] = "closed"]
    /\ reader' = [reader EXCEPT ![c] = [pc |-> "done", p |-> ZeroPacket]]

\* the reader after a failed readPacket: c.Close(), close(c.packets), return
ReaderStop(c, cn) ==
    /\ Close(c, cn)
    /\ packets' = [packets EXCEPT ![c] = "closed"]
    /\ reader' = [reader EXCEPT ![c] = [pc |-> "done", p |-> ZeroPacket]]

\* readPacket frames and decodes the next packet; the reader then offers it on
\* c.packets, or stops on a decode error
ReaderRead(c) ==
    LET s == conn[c].in
        n == FrameLen(s)
        r == Unmarshal(SubSeq(s, 1, n), ZeroPacket)
        cn == [conn EXCEPT ![c].in = SubSeq(s, n + 1, Len(s))]
    IN  /\ reader[c].pc = "read"
        /\ ~conn[c].closed
        /\ n > 0
        /\ IF r.err = ""
           THEN /\ reader' = [reader EXCEPT ![c] = [pc |-> "send", p |-> r.p]]
                /\ conn' = cn
                /\ UNCHANGED << isClosed, packets >>
           ELSE ReaderStop(c, cn)
        /\ UNCHANGED << count, maxid, mutex, th, ret, wlog, slog, cp >>

\* c.conn.Read fails: the transport was closed or the link broke
ReaderErr(c) ==
    /\ reader[c].pc = "read"
    /\ conn[c].closed \/ conn[c].broken
    /\ ReaderStop(c, conn)
    /\ UNCHANGED << count, maxid, mutex, th, ret, wlog, slog, cp >>

----------------------------------------------------------------------------
(* The server and the network *)

\* a response packet of the server
Resp(id, payload) == MkPacket(id, ResponsePacket, payload)

\* the payload of the i-th fragment of a command response: "a", "b", ...
Frag(i) == << 96 + i >>

\* The answers of the server to a request: to a login one packet that echoes the
\* id, or carries -1, or two packets; to a command 1..MaxFrags fragments; to the
\* kind it does not know the fixed diagnostic.
Replies(kind, id) ==
    IF kind = LoginPacket
    THEN { << Resp(id, << >>) >>, << Resp(-1, << >>) >>,
           << Resp(id, << >>), Resp(id, << >>) >> }
    ELSE IF kind = CommandPacket
    THEN { [i \in 1..n |-> Resp(id, Frag(i))] : n \in 1..MaxFrags }
    ELSE { << Resp(id, TerminalResponse) >> }

\* the bytes of a sequence of packets, back to back
RECURSIVE Wire(_)
Wire(ps) == IF ps = << >> THEN << >> ELSE Marshal(Head(ps)).data \o Wire(Tail(ps))

RECURSIVE Payloads(_)
Payloads(ps) == IF ps = << >> THEN << >> ELSE << Head(ps).Payload >> \o Payloads(Tail(ps))

\* frames the reader cannot decode: a wrong length field, a byte above 0x7F
Garbage ==
    { PutUint32(11) \o PutUint32(0) \o PutUint32(0) \o << 0, 0 >>,
      PutUint32(11) \o PutUint32(0) \o PutUint32(0) \o << 200, 0, 0 >> }

\* the server takes the next request off the stream and answers it
ServerHandle(c) ==
    LET q == Head(conn[c].out)
        id == Uint32(Slice(q, 4, 8))
        kind == Uint32(Slice(q, 8, 12))
    IN  /\ conn[c].open /\ ~conn[c].closed /\ ~conn[c].broken
        /\ conn[c].out # << >>
        /\ \E reply \in Replies(kind, id) :
             /\ conn' = [conn EXCEPT ![c].out = Tail(@), ![c].in = @ \o Wire(reply)]
             /\ slog' = [slog EXCEPT ![c] =
                           Append(@, [kind |-> kind, payloads |-> Payloads(reply)])]
        /\ UNCHANGED << count, maxid, isClosed, mutex, packets, reader, th, ret, wlog, cp >>

\* the server (or the network) puts a malformed frame on the stream, once
ServerGarbage(c) ==
    /\ conn[c].open /\ ~conn[c].closed /\ ~conn[c].broken /\ ~conn[c].junk
    /\ \E g \in Garbage :
         conn' = [conn EXCEPT ![c].in = @ \o g, ![c].junk = TRUE]
    /\ UNCHANGED << count, maxid, isClosed, mutex, packets, reader, th, ret, wlog, slog, cp >>

\* the server hangs up or the link breaks
LinkFail(c) ==
    /\ conn[c].open /\ ~conn[c].closed /\ ~conn[c].broken
    /\ conn' = [conn EXCEPT ![c].broken = TRUE]
    /\ UNCHANGED << count, maxid, isClosed, mutex, packets, reader, th, ret, wlog, slog, cp >>

----------------------------------------------------------------------------
(* The specifications *)

\* the calls a goroutine of Spec may make on the shared Conn, once each
Todo == { "SendCommand", "Close" }

CodecOff == [pc |-> "off"]

\* Spec: goroutine 1 is about to call NewConn on a dialed transport
Init ==
    /\ count = 0
    /\ maxid = 0
    /\ isClosed = [c \in { 1 } |-> FALSE]
    /\ mutex = [c \in { 1 } |-> 0]
    /\ packets = [c \in { 1 } |-> "open"]
    /\ conn = [c \in { 1 } |-> Dialed]
    /\ reader = [c \in { 1 } |-> [pc |-> "none", p |-> ZeroPacket]]
    /\ th = [t \in 1..NThreads |->
               IF t = 1 THEN Locals("NewConn", 1, Todo, FALSE)
               ELSE Locals("idle", 0, Todo, FALSE)]
    /\ ret = [t \in 1..NThreads |-> NoReturn]
    /\ wlog = [c \in { 1 } |-> << >>]
    /\ slog = [c \in { 1 } |-> << >>]
    /\ cp = CodecOff

Next ==
    \/ \E t \in Threads : NewConn(t)
    \/ \E t \in Threads : SendCommand(t)
    \/ \E t \in Threads : CloseCall(t)
    \/ \E t \in Threads : NPLoad(t)
    \/ \E t \in Threads : NPStore(t)
    \/ \E t \in Threads : NPId(t)
    \/ \E t \in Threads : WritePacket(t)
    \/ \E t \in Threads : Recv(t)
    \/ \E t \in Threads : RecvClosed(t)
    \/ \E t \in Threads : TermWrite(t)
    \/ \E c \in Conns : ReaderRead(c)
    \/ \E c \in Conns : ReaderErr(c)
    \/ \E c \in Conns : ServerHandle(c)
    \/ \E c \in Conns : ServerGarbage(c)
    \/ \E c \in Conns : LinkFail(c)

Spec == Init /\ [][Next]_vars

\* the steps a goroutine takes inside a call it has made: the scheduler runs every
\* goroutine that can run
Running(t) ==
    \/ NPLoad(t)
    \/ NPStore(t)
    \/ NPId(t)
    \/ WritePacket(t)
    \/ Recv(t)
    \/ RecvClosed(t)
    \/ TermWrite(t)

\* the steps of the reader goroutine of Conn c
ReaderRunning(c) == ReaderRead(c) \/ ReaderErr(c)

\* Spec with the scheduler's fairness: a goroutine inside a call, and the reader,
\* are not held up for ever while they can take a step. Callers need not call,
\* and the server need not answer.
SpecLive ==
    /\ Spec
    /\ \A t \in 1..NThreads : WF_vars(Running(t))
    /\ WF_vars(ReaderRunning(1))

\* SpecClient: every goroutine is about to call Client.Send. The server of a
\* private Conn answers well-formed frames, and hangs up, if it does, while a
\* request is waiting for it.
InitClient ==
    /\ count = 0
    /\ maxid = 0
    /\ isClosed = [c \in 1..NClients |-> FALSE]
    /\ mutex = [c \in 1..NClients |-> 0]
    /\ packets = [c \in 1..NClients |-> "open"]
    /\ conn = [c \in 1..NClients |-> NoTransport]
    /\ reader = [c \in 1..NClients |-> [pc |-> "none", p |-> ZeroPacket]]
    /\ th = [t \in 1..NClients |-> Locals("Send", 0, { }, TRUE)]
    /\ ret = [t \in 1..NClients |-> NoReturn]
    /\ wlog = [c \in 1..NClients |-> << >>]
    /\ slog = [c \in 1..NClients |-> << >>]
    /\ cp = CodecOff

NextClient ==
    \/ \E t \in Threads : ClientSend(t)
    \/ \E t \in Threads : NewConn(t)
    \/ \E t \in Threads : SendCommand(t)
    \/ \E t \in Threads : DeferClose(t)
    \/ \E t \in Threads : NPLoad(t)
    \/ \E t \in Threads : NPStore(t)
    \/ \E t \in Threads : NPId(t)
    \/ \E t \in Threads : WritePacket(t)
    \/ \E t \in Threads : Recv(t)
    \/ \E t \in Threads : RecvClosed(t)
    \/ \E t \in Threads : TermWrite(t)
    \/ \E c \in Conns : ReaderRead(c)
    \/ \E c \in Conns : ReaderErr(c)
    \/ \E c \in Conns : ServerHandle(c)
    \/ \E c \in Conns : conn[c].out # << >> /\ LinkFail(c)

SpecClient == InitClient /\ [][NextClient]_vars

----------------------------------------------------------------------------
(* SpecStream: a goroutine is in SendCommand's readPackets, its command is    *)
(* with the server, and the server's whole answer, packets of any ASCII       *)
(* payload written back to back, is on the stream for the reader to frame     *)

\* the payloads of the packets on the stream: bytes 0x00 and "a"
StreamPayloads == UNION { [1..n -> { 0, 97 }] : n \in 0..MaxPayloadLen }

\* the answers on the stream: 1..MaxStream response packets that echo id
StreamReplies(id) ==
    UNION { [1..n -> { Resp(id, b) : b \in StreamPayloads }] : n \in 1..MaxStream }

\* the goroutine after writePacket(req) of its command "x": login and its
\* termination packet took the ids 1 and 2
InReadPackets ==
    [Locals("recv", 1, { }, FALSE) EXCEPT
       !.op = "SendCommand", !.phase = "req", !.arg = << 120 >>,
       !.req = MkPacket(3, CommandPacket, << 120 >>)]

InitStream ==
    /\ count = 3
    /\ maxid = 3
    /\ isClosed = [c \in { 1 } |-> FALSE]
    /\ mutex = [c \in { 1 } |-> 1]
    /\ packets = [c \in { 1 } |-> "open"]
    /\ reader = [c \in { 1 } |-> [pc |-> "read", p |-> ZeroPacket]]
    /\ th = [t \in { 1 } |-> InReadPackets]
    /\ ret = [t \in { 1 } |-> Returned("NewConn", 1, "", << >>, TRUE, FALSE)]
    /\ wlog = [c \in { 1 } |-> << LoginPacket, TerminationPacket, CommandPacket >>]
    /\ cp = CodecOff
    /\ \E reply \in StreamReplies(3) :
         /\ conn = [c \in { 1 } |-> [Dialed EXCEPT !.in = Wire(reply)]]
         /\ slog = [c \in { 1 } |->
                      << [kind |-> LoginPacket, payloads |-> << << >> >>],
                         [kind |-> TerminationPacket, payloads |-> << TerminalResponse >>],
                         [kind |-> CommandPacket, payloads |-> Payloads(reply)] >>]

NextStream ==
    \/ \E c \in Conns : ReaderRead(c)
    \/ \E t \in Threads : Recv(t)
    \/ \E t \in Threads : RecvClosed(t)
    \/ \E t \in Threads : NPLoad(t)
    \/ \E t \in Threads : NPStore(t)
    \/ \E t \in Threads : NPId(t)
    \/ \E t \in Threads : TermWrite(t)

SpecStream == InitStream /\ [][NextStream]_vars

----------------------------------------------------------------------------
(* SpecCodec: Marshal, then Unmarshal of its result into a fresh packet, as  *)
(* TestMarshalAndUnmarshal does, for every packet of a bounded set; and      *)
(* Unmarshal of the byte strings of a bounded set, as readPacket applies it  *)
(* to what the stream delivers                                               *)

\* the payload bytes, ids, kinds and packets the codec is applied to
CodecBytes == { 0, 97, 127, 200 }

CodecPayloads ==
    UNION { [1..n -> CodecBytes] : n \in 0..MaxPayloadLen }

CodecIDs == { -1, 0, 1, 256, MaxInt32, MinInt32 }

CodecKinds == { 0, 1, 2, 3, 4, 5, -1 }

\* Packet{Length: n, ID: 1, Kind: CommandPacket, Payload: "ok"} for the Length
\* NewPacket computes, 12, and for 14
OkPackets ==
    { [Length |-> n, ID |-> 1, Kind |-> CommandPacket, Payload |-> << 111, 107 >>] :
        n \in { 12, 14 } }

CodecPackets ==
    { [Length |-> ToUint32(Len(b) + d), ID |-> id, Kind |-> k, Payload |-> b] :
        b \in CodecPayloads, d \in { 9, 10 }, id \in CodecIDs, k \in CodecKinds }
      \cup OkPackets \cup { NilPacket }

\* what follows the payload in a byte string given to Unmarshal
CodecTails == { << 0, 0 >>, << 0, 1 >>, << 1, 0 >>, << 0 >>, << >> }

\* the byte strings given to Unmarshal: three words, a payload and a tail, the
\* first word being the count of the bytes after it for a two-byte tail, or one
\* less or more
CodecFrames ==
    { PutUint32(Len(b) + d) \o PutUint32(id) \o PutUint32(k) \o b \o t :
        b \in CodecPayloads, d \in { 9, 10, 11 }, id \in { -1, 1 },
        k \in CodecKinds, t \in CodecTails }

\* the destinations given to Unmarshal: a fresh &Packet{}, nil, and a packet
\* that holds the result of an earlier call
CodecDestinations == { ZeroPacket, NilPacket, MkPacket(7, CommandPacket, << 97 >>) }

NoResult == [err |-> "", data |-> << >>, p |-> ZeroPacket]

InitCodec ==
    /\ count = 0
    /\ maxid = 0
    /\ isClosed = << >>
    /\ mutex = << >>
    /\ packets = << >>
    /\ conn = << >>
    /\ reader = << >>
    /\ th = << >>
    /\ ret = << >>
    /\ wlog = << >>
    /\ slog = << >>
    /\ cp \in { [pc |-> "start", p |-> pkt, d |-> << >>, dst |-> ZeroPacket,
                 m |-> NoResult, r |-> NoResult] : pkt \in CodecPackets }
              \cup
              { [pc |-> "raw", p |-> ZeroPacket, d |-> f, dst |-> q,
                 m |-> NoResult, r |-> NoResult] :
                  f \in CodecFrames, q \in CodecDestinations }

\* data, err := Marshal(p)
CodecMarshal ==
    /\ cp.pc = "start"
    /\ cp' = [cp EXCEPT !.pc = "marshalled",
                        !.m = [NoResult EXCEPT !.err = Marshal(cp.p).err,
                                               !.data = Marshal(cp.p).data]]
    /\ UNCHANGED << count, maxid, isClosed, mutex, packets, conn, reader, th, ret, wlog, slog >>

\* r := &Packet{}; err := Unmarshal(data, r)
CodecUnmarshal ==
    /\ cp.pc = "marshalled"
    /\ cp.m.err = ""
    /\ cp' = [cp EXCEPT !.pc = "done",
                        !.r = [NoResult EXCEPT !.err = Unmarshal(cp.m.data, ZeroPacket).err,
                                               !.p = Unmarshal(cp.m.data, ZeroPacket).p]]
    /\ UNCHANGED << count, maxid, isClosed, mutex, packets, conn, reader, th, ret, wlog, slog >>

\* err := Unmarshal(data, p) on bytes that no Marshal call need have produced
CodecDecode ==
    /\ cp.pc = "raw"
    /\ cp' = [cp EXCEPT !.pc = "decoded",
                        !.r = [NoResult EXCEPT !.err = Unmarshal(cp.d, cp.dst).err,
                                               !.p = Unmarshal(cp.d, cp.dst).p]]
    /\ UNCHANGED << count, maxid, isClosed, mutex, packets, conn, reader, th, ret, wlog, slog >>

NextCodec ==
    \/ CodecMarshal
    \/ CodecUnmarshal
    \/ CodecDecode

SpecCodec == InitCodec /\ [][NextCodec]_vars

----------------------------------------------------------------------------
(* Properties *)

\* goroutine t has written a command on Conn c and SendCommand has not returned
InFlight(t, c) ==
    /\ th[t].c = c
    /\ th[t].op = "SendCommand"
    /\ th[t].pc = "recv" \/ th[t].phase = "term"

\* C1: on one Conn at most one command is in flight, and while a command is in
\* flight every SendCommand that returned before it on that Conn had seen its
\* termination sentinel (a call that ended otherwise leaves the Conn closed, and no
\* later command is written).
C1_Serialized ==
    \A c \in Conns :
      /\ Cardinality({ t \in Threads : InFlight(t, c) }) <= 1
      /\ \A t, u \in Threads :
           (InFlight(t, c) /\ ret[u].op = "SendCommand" /\ ret[u].c = c)
             => ret[u].sentinel

\* a second command is in flight after a first one completed on the same Conn
C1_Witness ==
    \E t, u \in Threads :
      /\ t # u
      /\ InFlight(t, 1)
      /\ th[t].pc = "recv"
      /\ ret[u].op = "SendCommand" /\ ret[u].err = "" /\ ret[u].sentinel

\* the payloads of the server's answer to the last command on Conn c, joined
RECURSIVE Join(_)
Join(ps) == IF ps = << >> THEN << >> ELSE Head(ps) \o Join(Tail(ps))

LastCommandReply(c) ==
    LET at == { i \in 1..Len(slog[c]) : slog[c][i].kind = CommandPacket }
        last == CHOOSE i \in at : \A j \in at : j <= i
    IN  slog[c][last].payloads

\* goroutine t returns from SendCommand in this step
SendCommandReturns(t) == th[t].op = "SendCommand" /\ th'[t].op = ""

\* C2: a SendCommand that returns after the sentinel returns a nil error and the
\* payloads of the fragments the server sent for the command, joined in the
\* order sent, without the sentinel's payload.
C2_Fragments ==
    [][\A t \in Threads :
         (SendCommandReturns(t) /\ ret'[t].sentinel)
           => /\ ret'[t].err = ""
              /\ ret'[t].val = Join(LastCommandReply(th[t].c))
              /\ \A i \in 1..Len(LastCommandReply(th[t].c)) :
                   LastCommandReply(th[t].c)[i] # TerminalResponse]_vars

\* a command answered in two fragments has returned "ab"
C2_Witness ==
    \E t \in Threads :
      /\ ret[t].op = "SendCommand" /\ ret[t].sentinel
      /\ ret[t].val = << 97, 98 >>

\* C3: NewConn returns a Conn only when the server answered the login with one
\* packet and no read failure cut the login's response group short; every other
\* outcome is an error with the Conn and the transport closed.
C3_NewConn ==
    \A t \in Threads :
      ret[t].op = "NewConn" =>
        IF ret[t].err = ""
        THEN /\ ret[t].sentinel
             /\ Len(slog[ret[t].c][1].payloads) = 1
        ELSE /\ th[t].c = 0
             /\ isClosed[ret[t].c]
             /\ conn[ret[t].c].closed

\* goroutine t calls SendCommand in this step (Lock and the isClosed test)
SendCommandCalled(t) ==
    /\ th[t].pc = "idle"
    /\ "SendCommand" \in th[t].todo
    /\ "SendCommand" \notin th'[t].todo

\* a Close call on Conn c has returned to some goroutine
CloseReturned(c) == \E u \in Threads : ret[u].op = "Close" /\ ret[u].c = c

\* C4: once Close has returned, IsClosed is true, and a SendCommand called from
\* then on returns the connection-closed error in that step, having created no
\* packet and written or read nothing.
C4_ClosedFailsFast ==
    [][/\ \A c \in Conns : CloseReturned(c)' => IsClosed(c)'
       /\ \A t \in Threads :
            (SendCommandCalled(t) /\ CloseReturned(th[t].c))
              => /\ ret'[t] = Returned("SendCommand", th[t].c, "connection closed",
                                       << >>, FALSE, FALSE)
                 /\ th'[t].pc = "idle"
                 /\ UNCHANGED << count, conn, wlog, reader, packets >>]_vars

\* a SendCommand called after a Close has returned the connection-closed error
C4_Witness ==
    \E t, u \in Threads :
      /\ ret[u].op = "Close"
      /\ ret[t].op = "SendCommand" /\ ret[t].err = "connection closed"

\* C5: a SendCommand that was waiting for a packet when another goroutine called
\* Close returns an error.
C5_CloseFailsBlocked ==
    \A t \in Threads :
      (ret[t].op = "SendCommand" /\ ret[t].cwb) => ret[t].err # ""

\* no goroutine has called Close on a shared Conn
NoCloseCalled == \A u \in Threads : "Close" \in th[u].todo

\* C6: with no Close called by anyone, so that only a read or decode error of the
\* reader can end a response group early, a SendCommand that returns a nil error
\* has seen its sentinel.
C6_ReadErrorFails ==
    \A t \in Threads :
      (ret[t].op = "SendCommand" /\ ret[t].err = "" /\ NoCloseCalled)
        => ret[t].sentinel

\* C7: the closed flag of a Conn never goes from true back to false.
C7_ClosedMonotonic ==
    [][\A c \in Conns : isClosed[c] => isClosed'[c]]_vars

\* Close was called on a Conn that was closed already, and the flag is still set
C7_Witness ==
    \E t \in Threads :
      /\ ret[t].op = "Close"
      /\ ret[t].err = "use of closed network connection"
      /\ reader[ret[t].c].pc = "done"
      /\ isClosed[ret[t].c]

\* C8: the id NewPacket gives a packet is greater than every id it gave before.
C8_IdsIncrease ==
    [][\A t \in Threads :
         (th[t].pc = "np_id" /\ th'[t].pc # "np_id")
           => (IF th'[t].pc = "term" THEN th'[t].tp.ID ELSE th'[t].req.ID) > maxid]_vars

\* Send returned because Dial did: no transport, or NewConn failed
DialFailed(t) == ret[t].err = "failed to establish connection"

\* C9: no two Send calls hold the same Conn; when Send has returned, the Conn Dial
\* built, if any, is closed with its transport; and when Dial failed Send returned
\* an error and no command packet was written.
C9_SendOwnsAndCloses ==
    /\ \A t, u \in Threads :
         (t # u /\ th[t].c # 0 /\ th[u].c # 0) => th[t].c # th[u].c
    /\ \A t \in Threads :
         ret[t].op = "Send" =>
           /\ ret[t].c # 0 => (isClosed[ret[t].c] /\ conn[ret[t].c].closed)
           /\ ret[t].c = 0 => DialFailed(t)
           /\ DialFailed(t) =>
                (ret[t].c # 0 =>
                   \A i \in 1..Len(wlog[ret[t].c]) : wlog[ret[t].c][i] # CommandPacket)

\* two Send calls have returned, one with a response and one with the error of a
\* SendCommand whose command Marshal rejected
C9_Witness ==
    \E t, u \in Threads :
      /\ ret[t].op = "Send" /\ ret[t].err = "" /\ ret[t].val # << >>
      /\ ret[u].op = "Send" /\ ret[u].err = "failed writing packet"
      /\ ret[u].c # 0

\* the packets Marshal accepts
Valid(p) ==
    /\ p # NilPacket
    /\ p.Length = ToUint32(Len(p.Payload) + 10)
    /\ ~NonASCII(p.Payload)

\* C10: for a packet whose Length is len(Payload)+10 and whose payload is ASCII,
\* Marshal succeeds, and Unmarshal of its result succeeds and yields the packet.
C10_RoundTrip ==
    /\ (cp.pc = "marshalled" /\ Valid(cp.p)) => cp.m.err = ""
    /\ cp.pc = "done" => (cp.r.err = "" /\ cp.r.p = cp.p)

\* a packet with id -1, a two-byte payload and an unused kind has gone round
C10_Witness ==
    /\ cp.pc = "done"
    /\ cp.p.ID = -1
    /\ cp.p.Kind = 4
    /\ Len(cp.p.Payload) = 2
    /\ cp.r.p.Payload = cp.p.Payload

\* C11: Marshal of no packet returns the nil-packet error, and Marshal of a packet
\* whose Length is not len(Payload)+10 returns an error; both return no bytes.
C11_MarshalRejects ==
    cp.pc = "marshalled" =>
      /\ cp.p = NilPacket =>
           (cp.m.err = "nil packet provided" /\ cp.m.data = << >>)
      /\ (cp.p # NilPacket /\ cp.p.Length # Len(cp.p.Payload) + 10) =>
           (cp.m.err # "" /\ cp.m.data = << >>)

\* Marshal has refused an ASCII packet whose Length is one short
C11_Witness ==
    /\ cp.pc = "marshalled"
    /\ cp.p # NilPacket
    /\ cp.p.Length = Len(cp.p.Payload) + 9
    /\ \A i \in 1..Len(cp.p.Payload) : cp.p.Payload[i] < 128
    /\ cp.m.err = "invalid packet provided"

\* the payload region of a byte string: offset 12 up to the last two bytes
PayloadRegion(d) == 13..(Len(d) - 2)

\* C12: Marshal fails for a payload with a byte above 0x7F and Unmarshal fails for
\* bytes whose payload region holds one; the payload bytes Marshal writes and the
\* payload Unmarshal stores hold none.
C12_NonASCIIRejected ==
    /\ (cp.pc = "marshalled" /\ cp.p # NilPacket) =>
         /\ (\E i \in 1..Len(cp.p.Payload) : cp.p.Payload[i] > 127) => cp.m.err # ""
         /\ cp.m.err = "" => \A i \in PayloadRegion(cp.m.data) : cp.m.data[i] <= 127
    /\ cp.pc = "decoded" =>
         /\ (\E i \in PayloadRegion(cp.d) : cp.d[i] > 127) => cp.r.err # ""
         /\ (cp.r.err = "" /\ cp.r.p # NilPacket) =>
              \A i \in 1..Len(cp.r.p.Payload) : cp.r.p.Payload[i] <= 127

\* Unmarshal has refused a frame, sound but for the second payload byte 0xC8
C12_Witness ==
    /\ cp.pc = "decoded"
    /\ cp.dst = ZeroPacket
    /\ Len(cp.d) = 16
    /\ cp.d[1] = 12 /\ cp.d[13] = 97 /\ cp.d[14] = 200
    /\ cp.d[15] = 0 /\ cp.d[16] = 0
    /\ cp.r.err = "payload contains non-ASCII characters"

\* C13: Unmarshal fails for bytes that are fewer than 14, or do not end in two
\* zero bytes, or are not four more than their little-endian length field says.
C13_FramingRejected ==
    (/\ cp.pc = "decoded"
     /\ \/ Len(cp.d) < 14
        \/ cp.d[Len(cp.d)] # 0
        \/ cp.d[Len(cp.d) - 1] # 0
        \/ Len(cp.d) # Add32(Uint32(SubSeq(cp.d, 1, 4)), 4))
      => cp.r.err # ""

\* Unmarshal has refused 14 bytes or more with the right length field and a last
\* byte that is not zero
C13_Witness ==
    /\ cp.pc = "decoded"
    /\ cp.dst = ZeroPacket
    /\ Len(cp.d) >= 14
    /\ Len(cp.d) = cp.d[1] + 4
    /\ cp.d[Len(cp.d)] = 1
    /\ \A i \in PayloadRegion(cp.d) : cp.d[i] < 128
    /\ cp.r.err = "invalid packet bytes"

\* C14: Unmarshal fails for bytes whose kind field is none of 0, 2, 3, 5.
C14_KindRejected ==
    (cp.pc = "decoded" /\ Uint32(SubSeq(cp.d, 9, 12)) \notin { 0, 2, 3, 5 })
      => cp.r.err # ""

\* C15 as stated: Marshal of Packet{Length: 14, ID: 1, Kind: Command, Payload: "ok"}
\* is 0E 00 00 00 01 00 00 00 02 00 00 00 6F 6B 00 00.
C15_Example ==
    (/\ cp.pc = "marshalled"
     /\ cp.p = [Length |-> 14, ID |-> 1, Kind |-> 2, Payload |-> << 111, 107 >>])
      => /\ cp.m.err = ""
         /\ cp.m.data = << 14, 0, 0, 0, 1, 0, 0, 0, 2, 0, 0, 0, 111, 107, 0, 0 >>

\* C15, amended: the Length of a packet with payload "ok" is 12; Marshal of
\* Packet{Length: 12, ID: 1, Kind: Command, Payload: "ok"} is the 16 bytes
\* 0C 00 00 00 01 00 00 00 02 00 00 00 6F 6B 00 00, and Marshal of the packet with
\* Length 14 is an error and no bytes.
C15_ExampleLength12 ==
    cp.pc = "marshalled" =>
      /\ cp.p = [Length |-> 12, ID |-> 1, Kind |-> 2, Payload |-> << 111, 107 >>]
           => /\ cp.m.err = ""
              /\ cp.m.data = << 12, 0, 0, 0, 1, 0, 0, 0, 2, 0, 0, 0, 111, 107, 0, 0 >>
      /\ cp.p = [Length |-> 14, ID |-> 1, Kind |-> 2, Payload |-> << 111, 107 >>]
           => /\ cp.m.err = "invalid packet provided"
              /\ cp.m.data = << >>

\* Marshal has returned 16 bytes for the packet with payload "ok"
C15_Witness ==
    /\ cp.pc = "marshalled"
    /\ cp.p # NilPacket
    /\ cp.p.Payload = << 111, 107 >>
    /\ cp.p.ID = 1
    /\ Len(cp.m.data) = 16

\* the last element of a sequence of kinds, 0 - 1 for none
LastKind(w) == IF w = << >> THEN -1 ELSE w[Len(w)]

\* C16: every termination packet written on a Conn directly follows a Login or
\* Command packet in the order of writing, so no request gets two; it is written by
\* the caller that holds the first packet of the group and has kept none yet; a
\* packet joins the group, and the sentinel ends it, only with the termination
\* packet as the last packet written.
C16_OneTermination ==
    [][\A c \in Conns :
         /\ \A i \in 1..Len(wlog'[c]) :
              wlog'[c][i] = TerminationPacket
                => (i > 1 /\ wlog'[c][i - 1] \in { LoginPacket, CommandPacket })
         /\ (Len(wlog'[c]) > Len(wlog[c]) /\ LastKind(wlog'[c]) = TerminationPacket)
              => \E t \in Threads :
                   /\ th[t].c = c /\ th[t].pc = "term"
                   /\ th[t].resp = << >>
                   /\ th[t].p # ZeroPacket
                   /\ th[t].tp.Payload = MessageEnd
         /\ \A t \in Threads :
              (th[t].c = c /\ Len(th'[t].resp) > Len(th[t].resp))
                => LastKind(wlog'[c]) = TerminationPacket
         /\ \A t \in Threads :
              (th[t].c = c /\ ret'[t] # ret[t] /\ ret'[t].sentinel)
                => LastKind(wlog'[c]) = TerminationPacket]_vars

\* a login and a command answered in two fragments have completed with one
\* termination packet each
C16_Witness ==
    /\ wlog[1] = << LoginPacket, TerminationPacket, CommandPacket, TerminationPacket >>
    /\ \E t \in Threads :
         /\ ret[t].op = "SendCommand" /\ ret[t].sentinel
         /\ ret[t].val = << 97, 98 >>

\* C17: the reader stops only with the closed flag set, the transport closed and
\* the channel going from open to closed; the channel changes in no other step;
\* once stopped the reader takes no byte from the transport and hands over no
\* packet.
C17_ReaderStops ==
    [][\A c \in Conns :
         /\ (reader[c].pc # "done" /\ reader'[c].pc = "done")
              => /\ isClosed'[c]
                 /\ conn'[c].closed
                 /\ packets[c] = "open" /\ packets'[c] = "closed"
         /\ packets'[c] # packets[c]
              => (reader[c].pc = "read" /\ reader'[c].pc = "done")
         /\ reader[c].pc = "done"
              => /\ reader'[c] = reader[c]
                 /\ Len(conn'[c].in) >= Len(conn[c].in)
                 /\ packets'[c] = "closed"]_vars

\* the reader has stopped on a frame it could not decode: nobody called Close, no
\* call returned an error and the link is sound
C17_Witness ==
    /\ reader[1].pc = "done"
    /\ packets[1] = "closed"
    /\ conn[1].junk /\ ~conn[1].broken
    /\ NoCloseCalled
    /\ \A t \in Threads : ret[t].err = ""

\* C18: once the closed flag of the Conn is set, its reader stops and its channel
\* is closed at some later point.
C18_ReaderTerminates ==
    isClosed[1] ~> (reader[1].pc = "done" /\ packets[1] = "closed")

\* Conn c has been returned by NewConn to the goroutines that use it
Shared(c) ==
    \E t \in Threads : th[t].c = c /\ th[t].pc # "NewConn" /\ th[t].op # "NewConn"

\* this step changes the closed flag of Conn c, closes its transport or writes to it
Writes(c) ==
    \/ isClosed'[c] # isClosed[c]
    \/ conn'[c].closed # conn[c].closed
    \/ Len(conn'[c].out) > Len(conn[c].out)

\* goroutine u calls Close in this step
CloseCalled(u) == "Close" \in th[u].todo /\ "Close" \notin th'[u].todo

\* C19: every step that sets the closed flag of a shared Conn, or closes or writes
\* its transport, is taken by the goroutine that holds the Conn's mutex: the mutex
\* is held, and the step is neither the reader's nor the Close call of a goroutine
\* that does not hold it.
C19_WritesUnderGate ==
    [][\A c \in Conns :
         (Shared(c) /\ Writes(c))
           => /\ mutex[c] # 0
              /\ reader'[c] = reader[c]
              /\ \A u \in Threads : (th[u].c = c /\ CloseCalled(u)) => mutex[c] = u]_vars

\* goroutine t gets the result of a SendCommand call in this step
SendCommandResult(t) == ret'[t] # ret[t] /\ ret'[t].op = "SendCommand"

\* C20: in the step in which a SendCommand call returns, with whatever result, the
\* mutex of its Conn is free; the mutex is held only by a goroutine that is inside
\* SendCommand on that Conn; and a goroutine that may call Close can do so in
\* every state, whoever holds the mutex.
C20_GateReleased ==
    [][/\ \A t \in Threads : SendCommandResult(t) => mutex'[ret'[t].c] = 0
       /\ \A c \in Conns :
            mutex'[c] # 0
              => (th'[mutex'[c]].op = "SendCommand" /\ th'[mutex'[c]].c = c)
       /\ \A t \in Threads :
            (th[t].pc = "idle" /\ th[t].c # 0 /\ "Close" \in th[t].todo)
              => ENABLED CloseCall(t)]_vars

\* a SendCommand has returned a read error after another goroutine closed the
\* Conn under it, and the mutex is free
C20_Witness ==
    \E t, u \in Threads :
      /\ t # u
      /\ ret[t].op = "SendCommand" /\ ret[t].err = "failed reading packets"
      /\ ret[u].op = "Close" /\ ret[u].err = ""
      /\ mutex[1] = 0

\* the packets the server put on the stream of SpecStream, as sent
Sent == [i \in 1..Len(LastCommandReply(1)) |-> Resp(3, LastCommandReply(1)[i])]

\* C21: the reader meets no decode error on a stream of well-formed packets, the
\* packets readPackets has kept are the first of those sent, in order, and once
\* the stream is drained and handed over they are all of them.
C21_FramingDelivers ==
    /\ reader[1].pc # "done"
    /\ Len(th[1].resp) <= Len(Sent)
    /\ \A i \in 1..Len(th[1].resp) : th[1].resp[i] = Sent[i]
    /\ (conn[1].in = << >> /\ reader[1].pc = "read" /\ th[1].pc = "recv")
         => th[1].resp = Sent

WritesNonASCII(t) ==
    /\ th[t].op = "SendCommand"
    /\ th[t].pc = "write" /\ th'[t].pc # "write"
    /\ \E i \in 1..Len(th[t].arg) : th[t].arg[i] > 127

\* C23: writePacket of a command with a byte above 0x7F makes SendCommand return
\* an error with nothing written to the transport and the Conn closed, flag and
\* transport; and after a SendCommand has failed in writing, every SendCommand
\* that returns on the Conn returns an error.
C23_NonASCIICommand ==
    [][/\ \A t \in Threads :
            WritesNonASCII(t)
              => /\ SendCommandResult(t)
                 /\ ret'[t].err # ""
                 /\ conn'[th[t].c].out = conn[th[t].c].out
                 /\ wlog' = wlog
                 /\ isClosed'[th[t].c]
                 /\ conn'[th[t].c].closed
       /\ \A t, u \in Threads :
            (/\ t # u
             /\ ret[t].op = "SendCommand" /\ ret[t].err = "failed writing packet"
             /\ SendCommandResult(u) /\ ret'[u].c = ret[t].c)
              => ret'[u].err # ""]_vars

\* on a sound link that nobody closed, one SendCommand has failed in writing with
\* no command written, and a later one found the Conn closed
C23_Witness ==
    \E t, u \in Threads :
      /\ t # u
      /\ ret[t].op = "SendCommand" /\ ret[t].err = "failed writing packet"
      /\ ret[u].op = "SendCommand" /\ ret[u].err = "connection closed"
      /\ NoCloseCalled
      /\ ~conn[1].broken /\ ~conn[1].junk
      /\ wlog[1] = << LoginPacket, TerminationPacket >>
      /\ isClosed[1] /\ conn[1].closed

\* byte k (0 the least significant) of the 32-bit word v
ByteOf(v, k) == (v \div (256 ^ k)) % 256

\* C24: for a packet Marshal accepts, the result is len(Payload)+14 bytes, at
\* least 14: Length, ID and Kind least significant byte first at offsets 0, 4 and
\* 8, the payload bytes as they are from offset 12, and two zero bytes last.
C24_Layout ==
    (cp.pc = "marshalled" /\ Valid(cp.p)) =>
      LET d == cp.m.data
          n == Len(cp.p.Payload)
      IN  /\ cp.m.err = ""
          /\ Len(d) = n + 14
          /\ Len(d) >= 14
          /\ \A k \in 0..3 :
               /\ d[1 + k] = ByteOf(cp.p.Length, k)
               /\ d[5 + k] = ByteOf(cp.p.ID, k)
               /\ d[9 + k] = ByteOf(cp.p.Kind, k)
          /\ \A i \in 1..n : d[12 + i] = cp.p.Payload[i]
          /\ d[n + 13] = 0 /\ d[n + 14] = 0

\* Marshal has encoded a packet with the smallest id and a two-byte payload in 16
\* bytes, the id's top byte 0x80
C24_Witness ==
    /\ cp.pc = "marshalled"
    /\ Valid(cp.p)
    /\ cp.p.ID = MinInt32
    /\ Len(cp.p.Payload) = 2
    /\ Len(cp.m.data) = 16
    /\ cp.m.data[8] = 128

\* C25: when Unmarshal returns an error for a destination that is not nil, the
\* destination holds what it held before the call.
C25_ErrorLeavesDestination ==
    (cp.pc = "decoded" /\ cp.dst # NilPacket /\ cp.r.err # "") => cp.r.p = cp.dst

\* Unmarshal has refused a frame for its payload, with the right length field,
\* and the destination still holds the earlier packet
C25_Witness ==
    /\ cp.pc = "decoded"
    /\ cp.dst # NilPacket
    /\ cp.dst.ID = 7
    /\ cp.r.err = "payload contains non-ASCII characters"
    /\ cp.r.p.ID = 7 /\ cp.r.p.Payload = << 97 >>

====
